---- MODULE Spec2Model ----
(***************************************************************************)
(* Temporary-file lifecycle of the Voix text-to-speech page (src/app.py):  *)
(* generate_audio, the read-and-release block of main, cleanup_temp_files  *)
(* and cleanup_orphaned_files, run by two Streamlit sessions that share    *)
(* one temporary directory.                                                *)
(***************************************************************************)
EXTENDS Integers, FiniteSets, TLC

\* ------------------------------------------------------------------ bounds
\* Number of distinct names tempfile can draw for tmp<random>.wav.
MaxNames == 2
\* Number of clock ticks the model lets pass.
MaxTime == 2
\* ------------------------------------------------------- program constants
\* time.time() - 3600 in cleanup_orphaned_files.
AgeThreshold == 3600

\* One clock tick is as long as the age threshold, so that a file is seen
\* at exactly the threshold (kept) and beyond it (deleted).
TickSeconds == AgeThreshold

\* ------------------------------------------------------------------- names
Sessions == {"s1", "s2"}

\* tempfile.NamedTemporaryFile(delete=False, suffix=".wav"): tmp<random>.wav
TmpNames == {[pre |-> "tmp", id |-> i, suf |-> ".wav"] : i \in 1..MaxNames}

\* Other files of the temporary directory, never created by the program.
ForeignNames == {[pre |-> "tmp", id |-> 1, suf |-> ".txt"],
                 [pre |-> "rec", id |-> 1, suf |-> ".wav"]}

Names == TmpNames \cup ForeignNames

\* temp_file_path = None / audio_file = None
NoPath == [pre |-> "", id |-> 0, suf |-> ""]

\* A directory entry that does not exist.
NoFile == [exists |-> FALSE, mtime |-> 0, owner |-> "none", size |-> 0]

\* A file left behind by an earlier process, older than the age threshold
\* when this process starts (time 0).
OrphanFile == [exists |-> TRUE, mtime |-> 0 - AgeThreshold - 1,
               owner |-> "other", size |-> 1]

VARIABLES
    now,             \* time.time(), in seconds
    disk,            \* the temporary directory: name -> file
    pc,              \* per session: where its script run stands
    temp_file_path,  \* per session: generate_audio's local
    audio_file,      \* per session: main's local
    tracked,         \* per session: st.session_state.temp_files_to_cleanup
    last             \* the last step: operation, session, the paths it
                     \* worked on, the paths whose unlink raised, and the
                     \* exception raised past main

vars == <<now, disk, pc, temp_file_path, audio_file, tracked, last>>

\* ----------------------------------------------------------- file system
\* os.path.exists(file_path)
Exists(d, n) == d[n].exists

\* os.unlink(file_path), when it succeeds
Unlink(d, n) == [d EXCEPT ![n] = NoFile]

\* NamedTemporaryFile creates an empty file, owned by the creating session
Create(d, n, s, t) ==
    [d EXCEPT ![n] = [exists |-> TRUE, mtime |-> t, owner |-> s, size |-> 0]]

\* model.tts_to_file(file_path=...) writes the wav, creating the file when
\* it is missing
WriteWav(d, n, s, t) ==
    [d EXCEPT ![n] = [exists |-> TRUE, mtime |-> t,
                      owner |-> IF d[n].exists THEN d[n].owner ELSE s,
                      size |-> 1]]

\* glob.glob(os.path.join(temp_dir, "tmp*.wav"))
Matches(n) == n.pre = "tmp" /\ n.suf = ".wav"

Glob(d) == {n \in Names : Exists(d, n) /\ Matches(n)}

\* Stale with the age threshold forgotten: any file modified before now.
StaleNoThreshold(f, t) == f.mtime < t

\* os.path.getmtime(file_path) < (time.time() - 3600)
Stale(f, t) == f.mtime < t - AgeThreshold

\* ------------------------------------------------------------------- Init
Init ==
    /\ now = 0
    /\ disk \in {d \in [Names -> {NoFile, OrphanFile}] :
                    \A n \in ForeignNames : d[n] = OrphanFile}
    /\ pc = [s \in Sessions |-> "idle"]
    /\ temp_file_path = [s \in Sessions |-> NoPath]
    /\ audio_file = [s \in Sessions |-> NoPath]
    /\ tracked = [s \in Sessions |-> {}]
    /\ last = [op |-> "init", s |-> "none", paths |-> {}, fail |-> {},
               exc |-> "none"]

Op(o, s, P, F, e) == [op |-> o, s |-> s, paths |-> P, fail |-> F, exc |-> e]

\* --------------------------------------------------------- generate_audio
\* main reaches generate_audio (model loaded, text entered); the with
\* statement creates the temporary file. tempfile draws the name at random
\* and creates it exclusively, so it is any name not on disk now, a name
\* used and deleted earlier included.
NamedTemporaryFile(s, n) ==
    /\ pc[s] = "idle"
    /\ n \in TmpNames
    /\ ~Exists(disk, n)
    /\ pc' = [pc EXCEPT ![s] = "synth"]
    /\ temp_file_path' = [temp_file_path EXCEPT ![s] = n]
    /\ disk' = Create(disk, n, s, now)
    /\ last' = Op("NamedTemporaryFile", s, {n}, {}, "none")
    /\ UNCHANGED <<now, audio_file, tracked>>

\* st.session_state.temp_files_to_cleanup.add(temp_file_path)
Register(T, n) == T \cup {n}

\* tts_to_file returns: the path is registered and returned to main.
TtsToFileOk(s) ==
    /\ pc[s] = "synth"
    /\ disk' = WriteWav(disk, temp_file_path[s], s, now)
    /\ tracked' = [tracked EXCEPT ![s] = Register(@, temp_file_path[s])]
    /\ audio_file' = [audio_file EXCEPT ![s] = temp_file_path[s]]
    /\ temp_file_path' = [temp_file_path EXCEPT ![s] = NoPath]
    /\ pc' = [pc EXCEPT ![s] = "open"]
    /\ last' = Op("tts_to_file", s, {temp_file_path[s]}, {}, "none")
    /\ UNCHANGED now

\* FailureCleanup with the except branch's delete left out.
FailureCleanupSkipped(d, n, unlinkOk) == d

\* The except branch's delete: unlink when the file exists; an unlink that
\* raises is swallowed and leaves the file.
FailureCleanup(d, n, unlinkOk) ==
    IF Exists(d, n) /\ unlinkOk THEN Unlink(d, n) ELSE d

\* tts_to_file raises: the except branch deletes the file and returns None,
\* so main's "if audio_file:" skips the read and the run ends.
TtsToFileFail(s, unlinkOk) ==
    /\ pc[s] = "synth"
    /\ disk' = FailureCleanup(disk, temp_file_path[s], unlinkOk)
    /\ temp_file_path' = [temp_file_path EXCEPT ![s] = NoPath]
    /\ pc' = [pc EXCEPT ![s] = "idle"]
    /\ last' = Op("generate_audio_None", s, {temp_file_path[s]},
                  IF Exists(disk, temp_file_path[s]) /\ ~unlinkOk
                  THEN {temp_file_path[s]} ELSE {},
                  "none")
    /\ UNCHANGED <<now, audio_file, tracked>>

\* ------------------------------------------------- main: read and release
\* with open(audio_file, "rb") as f: audio_bytes = f.read()
\* A missing file raises FileNotFoundError, which nothing in main catches.
OpenRead(s) ==
    /\ pc[s] = "open"
    /\ IF Exists(disk, audio_file[s])
       THEN /\ pc' = [pc EXCEPT ![s] = "consume"]
            /\ UNCHANGED audio_file
            /\ last' = Op("open", s, {audio_file[s]}, {}, "none")
       ELSE /\ pc' = [pc EXCEPT ![s] = "idle"]
            /\ audio_file' = [audio_file EXCEPT ![s] = NoPath]
            /\ last' = Op("open", s, {audio_file[s]}, {}, "FileNotFoundError")
    /\ UNCHANGED <<now, disk, temp_file_path, tracked>>

\* st.audio(...) and st.download_button(...): either may raise, which ends
\* the run before os.unlink.
Consume(s, ok) ==
    /\ pc[s] = "consume"
    /\ IF ok
       THEN /\ pc' = [pc EXCEPT ![s] = "unlink"]
            /\ UNCHANGED audio_file
            /\ last' = Op("st_audio", s, {audio_file[s]}, {}, "none")
       ELSE /\ pc' = [pc EXCEPT ![s] = "idle"]
            /\ audio_file' = [audio_file EXCEPT ![s] = NoPath]
            /\ last' = Op("st_audio", s, {audio_file[s]}, {}, "ConsumerError")
    /\ UNCHANGED <<now, disk, temp_file_path, tracked>>

\* os.unlink(audio_file); st.success(...)
\* The Tracking Set is left as it is.
MainUnlink(s, unlinkOk) ==
    /\ pc[s] = "unlink"
    /\ pc' = [pc EXCEPT ![s] = "idle"]
    /\ audio_file' = [audio_file EXCEPT ![s] = NoPath]
    /\ IF ~Exists(disk, audio_file[s])
       THEN /\ UNCHANGED disk
            /\ last' = Op("os_unlink", s, {audio_file[s]}, {},
                          "FileNotFoundError")
       ELSE IF ~unlinkOk
       THEN /\ UNCHANGED disk
            /\ last' = Op("os_unlink", s, {audio_file[s]}, {audio_file[s]},
                          "OSError")
       ELSE /\ disk' = Unlink(disk, audio_file[s])
            /\ last' = Op("os_unlink", s, {audio_file[s]}, {}, "none")
    /\ UNCHANGED <<now, temp_file_path, tracked>>

\* ----------------------------------------------------- cleanup_temp_files
\* CleanupDisk with the try around the whole loop: the first unlink that
\* raises ends the loop, here before any other path is processed.
CleanupDiskAbortOnFailure(d, T, F) ==
    IF F # {} THEN d
    ELSE [n \in Names |-> IF n \in T /\ Exists(d, n) THEN NoFile ELSE d[n]]

\* The directory after the loop: every tracked path that exists and whose
\* unlink does not raise (F: the paths whose unlink raises) is deleted.
CleanupDisk(d, T, F) ==
    [n \in Names |-> IF n \in T /\ Exists(d, n) /\ n \notin F
                     THEN NoFile ELSE d[n]]

\* The Tracking Set after the loop: discard follows unlink inside the try,
\* so a path whose unlink raised stays.
CleanupTracked(d, T, F) == {n \in T : Exists(d, n) /\ n \in F}

\* Registered with atexit: it runs outside any script run of the session,
\* over the whole of the session's Tracking Set.
cleanup_temp_files(s, F) ==
    /\ pc[s] = "idle"
    /\ F \subseteq {n \in tracked[s] : Exists(disk, n)}
    /\ disk' = CleanupDisk(disk, tracked[s], F)
    /\ tracked' = [tracked EXCEPT ![s] = CleanupTracked(disk, tracked[s], F)]
    /\ last' = Op("cleanup_temp_files", s, tracked[s], F, "none")
    /\ UNCHANGED <<now, pc, temp_file_path, audio_file>>

\* ------------------------------------------------- cleanup_orphaned_files
\* The files the loop unlinks: matched by the pattern and older than the
\* threshold.
SweepTargets(d, t) == {n \in Glob(d) : Stale(d[n], t)}

\* F: the paths whose unlink raises (swallowed by the inner except).
SweepDisk(d, t, F) ==
    [n \in Names |-> IF n \in SweepTargets(d, t) /\ n \notin F
                     THEN NoFile ELSE d[n]]

cleanup_orphaned_files(F) ==
    /\ F \subseteq SweepTargets(disk, now)
    /\ disk' = SweepDisk(disk, now, F)
    /\ last' = Op("cleanup_orphaned_files", "none", SweepTargets(disk, now), F,
                  "none")
    /\ UNCHANGED <<now, pc, temp_file_path, audio_file, tracked>>

\* ------------------------------------------------------------------ clock
Tick ==
    /\ now < MaxTime * TickSeconds
    /\ now' = now + TickSeconds
    /\ last' = Op("tick", "none", {}, {}, "none")
    /\ UNCHANGED <<disk, pc, temp_file_path, audio_file, tracked>>

\* --------------------------------------------------------- specifications
SessionStep(s) ==
    \/ \E n \in TmpNames : NamedTemporaryFile(s, n)
    \/ TtsToFileOk(s)
    \/ \E ok \in BOOLEAN : TtsToFileFail(s, ok)
    \/ OpenRead(s)
    \/ \E ok \in BOOLEAN : Consume(s, ok)
    \/ \E ok \in BOOLEAN : MainUnlink(s, ok)

Cleanup(s) == \E F \in SUBSET TmpNames : cleanup_temp_files(s, F)

\* The program as written: main never calls cleanup_orphaned_files.
Next ==
    \/ \E s \in Sessions : SessionStep(s)
    \/ \E s \in Sessions : Cleanup(s)

Spec == Init /\ [][Next]_vars

\* The orphan sweep run beside an active session, with time passing.
Sweep == \E F \in SUBSET Names : cleanup_orphaned_files(F)

NextSweep ==
    \/ SessionStep("s1")
    \/ Cleanup("s1")
    \/ Sweep
    \/ Tick

SweepSpec == Init /\ [][NextSweep]_vars

\* Every script run that has started keeps going, every session is used
\* again and again (it reaches the delete that ends an interaction
\* infinitely often), and cleanup_temp_files runs whenever it is due.
FairSpec ==
    /\ Spec
    /\ \A s \in Sessions : WF_vars(SessionStep(s))
    /\ \A s \in Sessions : WF_vars(Cleanup(s))
    /\ \A s \in Sessions : []<>(pc[s] = "unlink")

\* ================================================================ claims
\* The path a running script holds: generate_audio's local while the
\* provider writes, main's local afterwards.
Path(s) == IF pc[s] = "synth" THEN temp_file_path[s] ELSE audio_file[s]

\* The step ends generate_audio through its except branch.
FailedWrite(s) == pc[s] = "synth" /\ pc'[s] = "idle"

\* The step ends a script run whose f.read() had captured the bytes.
EndsAfterRead(s) == pc[s] \in {"consume", "unlink"} /\ pc'[s] = "idle"

\* The step deletes n.
Deleted(n) == disk[n].exists /\ ~disk'[n].exists

\* ------------------------------------------------------------------- C1
\* C1 (as claimed): whenever generate_audio returns after tts_to_file
\* failed, the temporary file no longer exists, its path is not in the
\* session's Tracking Set, and no exception went past the caller.
C1_FailedWriteLeavesNothing ==
    [][\A s \in Sessions : FailedWrite(s) =>
          /\ ~disk'[temp_file_path[s]].exists
          /\ temp_file_path[s] \notin tracked'[s]
          /\ last'.exc = "none"]_vars

\* C1 (amended): whenever generate_audio returns after tts_to_file failed,
\* the temporary file no longer exists unless its own unlink raised (which
\* is swallowed), the call has left the Tracking Set as it found it, and the
\* result is None with no exception past the caller.
C1_FailedWriteCleansUp ==
    [][\A s \in Sessions : FailedWrite(s) =>
          /\ disk'[temp_file_path[s]].exists
                => temp_file_path[s] \in last'.fail
          /\ tracked'[s] = tracked[s]
          /\ audio_file'[s] = NoPath
          /\ last'.op = "generate_audio_None"
          /\ last'.exc = "none"]_vars

\* A failed generate_audio has just returned: its file is gone and its path
\* is not tracked.
C1_Witness ==
    /\ last.op = "generate_audio_None"
    /\ last.fail = {}
    /\ \E n \in last.paths : ~Exists(disk, n) /\ n \notin tracked[last.s]
    /\ pc[last.s] = "idle"

\* ------------------------------------------------------------------- C2
\* C2: an artifact moves CREATED -> WRITTEN -> RELEASED -> GONE: after a
\* successful generate_audio the file is on disk and non-empty, a script
\* run only moves forward through write, read, hand-off and delete, and when
\* the read-and-release that follows ends the file is gone.
C2_Lifecycle ==
    [][\A s \in Sessions :
          /\ (pc[s] = "synth" /\ pc'[s] = "open")
                => /\ disk'[audio_file'[s]].exists
                   /\ disk'[audio_file'[s]].size > 0
          /\ pc'[s] # pc[s] =>
                <<pc[s], pc'[s]>> \in {<<"idle", "synth">>, <<"synth", "open">>,
                                       <<"synth", "idle">>, <<"open", "consume">>,
                                       <<"consume", "unlink">>,
                                       <<"unlink", "idle">>}
          /\ (pc[s] \in {"open", "consume", "unlink"} /\ pc'[s] = "idle")
                => ~disk'[audio_file[s]].exists]_vars

\* ------------------------------------------------------------------- C3
\* C3: once f.read() has captured the bytes, the file is deleted before the
\* script run ends, also when st.audio or st.download_button raises.
C3_DeletedOnceBytesCaptured ==
    [][\A s \in Sessions : EndsAfterRead(s) =>
          ~disk'[audio_file[s]].exists]_vars

\* ------------------------------------------------------------------- C4
\* C4: the Tracking Set never contains a path whose file has been deleted.
C4_TrackedFilesExist ==
    \A s \in Sessions : \A n \in tracked[s] : Exists(disk, n)

\* ------------------------------------------------------------------- C5
\* C5: every file a session has created and that is still on disk is in
\* that session's Tracking Set, from the moment it is created.
C5_CreatedFilesTracked ==
    \A s \in Sessions : \A n \in TmpNames :
        (Exists(disk, n) /\ disk[n].owner = s) => n \in tracked[s]

\* ------------------------------------------------------------------- C6
\* C6: read-and-release on a path whose file is missing never raises past
\* the caller.
C6_MissingFileNeverRaises == last.exc # "FileNotFoundError"

\* ------------------------------------------------------------------- C7
\* C7 (as claimed): cleanup_temp_files never raises and ends with the
\* Tracking Set empty and none of the previously tracked paths on disk.
C7_CleanupEmptiesEverything ==
    [][\A s \in Sessions :
          (last'.op = "cleanup_temp_files" /\ last'.s = s) =>
             /\ last'.exc = "none"
             /\ tracked'[s] = {}
             /\ \A n \in tracked[s] : ~disk'[n].exists]_vars

\* C7 (amended): cleanup_temp_files never raises; of the paths it found
\* tracked, those whose unlink raised stay on disk and stay tracked, and
\* every other one, on disk before or already gone, is absent from disk and
\* from the Tracking Set afterwards, whatever happened to the others; no
\* other file is touched.
C7_CleanupBestEffort ==
    [][\A s \in Sessions :
          (last'.op = "cleanup_temp_files" /\ last'.s = s) =>
             /\ last'.exc = "none"
             /\ pc' = pc
             /\ tracked'[s] = last'.fail
             /\ \A n \in tracked[s] :
                   disk'[n].exists <=> n \in last'.fail
             /\ \A n \in Names \ tracked[s] : disk'[n] = disk[n]]_vars

\* cleanup_temp_files has just run over two or more tracked paths: one
\* unlink raised and that path is still tracked and on disk, another path
\* is gone from both.
C7_Witness ==
    /\ last.op = "cleanup_temp_files"
    /\ Cardinality(last.paths) >= 2
    /\ last.fail # {}
    /\ tracked[last.s] = last.fail
    /\ \A n \in last.fail : Exists(disk, n)
    /\ \E n \in last.paths \ last.fail :
          ~Exists(disk, n) /\ n \notin tracked[last.s]

\* ------------------------------------------------------------------- C8
\* C8: two sessions that hold an artifact at the same time hold distinct
\* paths, and no step of one session deletes a file that another session
\* created and that is still on disk.
C8_NoCollisionNoCrossDeletion ==
    [][/\ \A s, t \in Sessions :
             (s # t /\ pc'[s] # "idle" /\ pc'[t] # "idle")
                => (IF pc'[s] = "synth" THEN temp_file_path'[s]
                                        ELSE audio_file'[s])
                   # (IF pc'[t] = "synth" THEN temp_file_path'[t]
                                          ELSE audio_file'[t])
       /\ \A n \in TmpNames :
             (Deleted(n) /\ disk[n].owner \in Sessions)
                => last'.s = disk[n].owner]_vars

\* ------------------------------------------------------------------- C9
\* C9 (as claimed): cleanup_orphaned_files deletes only files matching
\* tmp*.wav whose mtime is more than an hour old, and never the file of a
\* session that is between creating it and finishing read-and-release.
C9_SweepSparesActiveSessions ==
    [][last'.op = "cleanup_orphaned_files" =>
          \A n \in Names : Deleted(n) =>
             /\ n.pre = "tmp" /\ n.suf = ".wav"
             /\ disk[n].mtime + 3600 < now
             /\ \A s \in Sessions : ~(pc[s] # "idle" /\ Path(s) = n)]_vars

\* C9 (amended): cleanup_orphaned_files deletes only files matching
\* tmp*.wav whose mtime is more than an hour old, tracked or not, and
\* changes nothing else: a file modified within the last hour is never
\* deleted. (The file of a session that has held it unmodified for more
\* than an hour is deleted like any other.)
C9_SweepDeletesOnlyStale ==
    [][last'.op = "cleanup_orphaned_files" =>
          /\ \A n \in Names : Deleted(n) =>
                /\ n.pre = "tmp" /\ n.suf = ".wav"
                /\ disk[n].mtime + 3600 < now
          /\ \A n \in Names :
                (disk[n].mtime + 3600 >= now \/ n.pre # "tmp" \/ n.suf # ".wav")
                   => disk'[n] = disk[n]
          /\ \A n \in Names : ~Deleted(n) => disk'[n] = disk[n]
          /\ UNCHANGED <<now, pc, temp_file_path, audio_file, tracked>>]_vars

\* cleanup_orphaned_files has just deleted a file that a session still
\* tracks, and left a file of the same pattern that is not older than the
\* threshold.
C9_Witness ==
    /\ last.op = "cleanup_orphaned_files"
    /\ \E s \in Sessions : \E n \in tracked[s] :
          n \in last.paths /\ ~Exists(disk, n)
    /\ \E m \in TmpNames : Exists(disk, m) /\ disk[m].mtime + 3600 >= now

\* ------------------------------------------------------------------ C10
\* C10: a tmp*.wav file left behind by an earlier process and older than
\* the threshold is eventually deleted.
C10_OrphanEventuallyDeleted ==
    \A n \in TmpNames :
        (Exists(disk, n) /\ disk[n].owner = "other"
            /\ disk[n].mtime + 3600 < now)
        ~> ~Exists(disk, n)

====
